---- MODULE Spec2Model ----
(***************************************************************************)
(* A model of @nextcloud/files: the Node data model (lib/files/node.ts),   *)
(* the file action registry (lib/fileAction.ts) and the new-file menu      *)
(* registry (lib/newFileMenu.ts).                                          *)
(*                                                                         *)
(* Strings are sequences of one-character strings, so that slicing,        *)
(* searching and trailing-slash stripping are computed character by        *)
(* character as the JavaScript does.                                       *)
(***************************************************************************)
EXTENDS Integers, Sequences, FiniteSets, TLC

(***************************************************************************)
(* JavaScript values: every value carries its runtime type, as typeof and  *)
(* instanceof see it.  str holds the characters of a string, num the value *)
(* of a number, the timestamp of a Date or the truth of a boolean (1, 0);  *)
(* the field a type does not use is empty or 0.                            *)
(***************************************************************************)
Value(type, str, num) == [type |-> type, str |-> str, num |-> num]
Undefined == Value("undefined", << >>, 0)
Null == Value("null", << >>, 0)
Str(s) == Value("string", s, 0)
Num(n) == Value("number", << >>, n)
DateOf(t) == Value("date", << >>, t)
Bool(b) == Value("boolean", << >>, IF b THEN 1 ELSE 0)
\* a number that is not an integer; num is its integer part
Frac(n) == Value("fraction", << >>, n)

\* ToBoolean
truthy(x) ==
  CASE x.type = "undefined" -> FALSE
    [] x.type = "null" -> FALSE
    [] x.type = "string" -> Len(x.str) > 0
    [] x.type = "number" -> x.num # 0
    [] x.type = "boolean" -> x.num # 0
    [] OTHER -> TRUE

\* typeof x === 'number'
isNumber(x) == x.type \in {"number", "fraction"}

(***************************************************************************)
(* String primitives (methods of String.prototype)                         *)
(***************************************************************************)
EmptyStr == << >>

startsWithAt(s, sub, i) ==
  /\ i >= 1
  /\ i + Len(sub) - 1 <= Len(s)
  /\ \A k \in 1..Len(sub) : s[i + k - 1] = sub[k]

startsWith(s, sub) == startsWithAt(s, sub, 1)

includes(s, sub) == \E i \in 1..(Len(s) + 1) : startsWithAt(s, sub, i)

\* String.prototype.indexOf, as a JavaScript (0-based) index; -1 when absent
indexOf(s, sub) ==
  IF includes(s, sub)
    THEN (CHOOSE i \in 1..(Len(s) + 1) :
            /\ startsWithAt(s, sub, i)
            /\ \A j \in 1..(i - 1) : ~startsWithAt(s, sub, j)) - 1
    ELSE -1

\* String.prototype.slice(start) with a JavaScript (0-based) start, which may
\* be negative (counted from the end) as in the language
slice(s, start) ==
  LET from == IF start < 0
                THEN (IF Len(s) + start < 0 THEN 0 ELSE Len(s) + start)
                ELSE start
  IN IF from >= Len(s) THEN EmptyStr ELSE SubSeq(s, from + 1, Len(s))

endsWithSlash(s) == Len(s) > 0 /\ s[Len(s)] = "/"

\* s.replace(/\/$/i, ''): removes one ending slash
stripEndingSlash(s) ==
  IF endsWithSlash(s) THEN SubSeq(s, 1, Len(s) - 1) ELSE s

\* s.replace(/^(.+)\/$/, '$1'): removes one ending slash when something
\* precedes it
stripRootEndingSlash(s) ==
  IF Len(s) >= 2 /\ endsWithSlash(s) THEN SubSeq(s, 1, Len(s) - 1) ELSE s

\* s.replace(/\/\//g, '/'): each non-overlapping '//' from the left becomes '/'
RECURSIVE collapseDoubleSlash(_)
collapseDoubleSlash(s) ==
  IF Len(s) < 2 THEN s
  ELSE IF s[1] = "/" /\ s[2] = "/"
    THEN <<"/">> \o collapseDoubleSlash(SubSeq(s, 3, Len(s)))
    ELSE <<s[1]>> \o collapseDoubleSlash(Tail(s))

(***************************************************************************)
(* path.dirname and path.basename (POSIX flavour of the 'path' module)     *)
(***************************************************************************)
posix_dirname(p) ==
  IF Len(p) = 0 THEN <<".">>
  ELSE
    LET hasRoot == p[1] = "/"
        cand == {i \in 2..Len(p) :
                   /\ p[i] = "/"
                   /\ \E j \in (i + 1)..Len(p) : p[j] # "/"}
    IN IF cand = {} THEN (IF hasRoot THEN <<"/">> ELSE <<".">>)
       ELSE LET i == CHOOSE x \in cand : \A y \in cand : y <= x
            IN IF hasRoot /\ i = 2 THEN <<"/", "/">>
               ELSE SubSeq(p, 1, i - 1)

posix_basename(p) ==
  LET nonSlash == {i \in 1..Len(p) : p[i] # "/"}
  IN IF nonSlash = {} THEN EmptyStr
     ELSE LET e == CHOOSE x \in nonSlash : \A y \in nonSlash : y <= x
              sl == {i \in 1..(e - 1) : p[i] = "/"}
              st == IF sl = {} THEN 0
                    ELSE CHOOSE x \in sl : \A y \in sl : y <= x
          IN SubSeq(p, st + 1, e)

(***************************************************************************)
(* Regular expressions of the shape the DAV service patterns have: a set   *)
(* of literal alternatives, optionally case-insensitive.                   *)
(***************************************************************************)
toLowerCase(c) ==
  CASE c = "D" -> "d"
    [] c = "A" -> "a"
    [] c = "V" -> "v"
    [] OTHER -> c

charEq(re, a, b) == IF re.ci THEN toLowerCase(a) = toLowerCase(b) ELSE a = b

reMatchesAt(re, s, i, alt) ==
  /\ i >= 1
  /\ i + Len(alt) - 1 <= Len(s)
  /\ \A k \in 1..Len(alt) : charEq(re, s[i + k - 1], alt[k])

\* length of the match of re at position i of s, 0 when there is none
reMatchLenAt(re, s, i) ==
  LET lens == {Len(alt) : alt \in {a \in re.alts : reMatchesAt(re, s, i, a)}}
  IN IF lens = {} THEN 0 ELSE CHOOSE l \in lens : \A m \in lens : m <= l

\* position of the leftmost match of re in s at or after from, 0 when none
reSearchFrom(re, s, from) ==
  LET pos == {i \in from..Len(s) : reMatchLenAt(re, s, i) > 0}
  IN IF pos = {} THEN 0 ELSE CHOOSE i \in pos : \A j \in pos : i <= j

\* s.match(re) !== null
reTest(re, s) == reSearchFrom(re, s, 1) > 0

\* s.match(re)[0]: the text of the leftmost match
reMatchText(re, s) ==
  LET i == reSearchFrom(re, s, 1)
  IN SubSeq(s, i, i + reMatchLenAt(re, s, i) - 1)

\* s.split(re).pop(): what follows the last match, the whole of s when
\* nothing matches
RECURSIVE splitPopFrom(_, _, _)
splitPopFrom(re, s, from) ==
  LET i == reSearchFrom(re, s, from)
  IN IF i = 0 THEN SubSeq(s, from, Len(s))
     ELSE splitPopFrom(re, s, i + reMatchLenAt(re, s, i))

\* s.split(re)[1]: what follows the first match
splitPop_afterFirst(re, s) ==
  LET i == reSearchFrom(re, s, 1)
  IN IF i = 0 THEN s ELSE SubSeq(s, i + reMatchLenAt(re, s, i), Len(s))

splitPop(re, s) == splitPopFrom(re, s, 1)

(***************************************************************************)
(* URLs (the WHATWG URL class), for sources made of letters, digits, '.',  *)
(* ':' and '/', and without '.' or '..' path segments.                     *)
(***************************************************************************)
w_http == <<"h", "t", "t", "p">>
w_https == <<"h", "t", "t", "p", "s">>
w_ftp == <<"f", "t", "p">>
Schemes == {w_http, w_https, w_ftp}

urlScheme(s) ==
  IF \E sc \in Schemes : startsWith(s, sc \o <<":">>)
    THEN CHOOSE sc \in Schemes : startsWith(s, sc \o <<":">>)
    ELSE EmptyStr

\* index of the first character of the host, past the scheme and the slashes
\* that follow it; Len(s) + 1 when there is no host
urlHostStart(s) ==
  LET after == Len(urlScheme(s)) + 2
      host == {i \in after..Len(s) : s[i] # "/"}
  IN IF host = {} THEN Len(s) + 1
     ELSE CHOOSE i \in host : \A j \in host : i <= j

\* new URL(s) does not throw
parsesAsURL(s) == urlScheme(s) # EmptyStr /\ urlHostStart(s) <= Len(s)

\* new URL(s).pathname
urlPathname(s) ==
  LET h == urlHostStart(s)
      sl == {i \in h..Len(s) : s[i] = "/"}
  IN IF sl = {} THEN <<"/">>
     ELSE SubSeq(s, CHOOSE i \in sl : \A j \in sl : i <= j, Len(s))

(***************************************************************************)
(* lib/permissions.ts, lib/files/fileType.ts, NodeStatus                   *)
(***************************************************************************)
PermissionNONE == 0
PermissionREAD == 1
PermissionALL == 31
w_new == <<"n", "e", "w">>
w_failed == <<"f", "a", "i", "l", "e", "d">>
w_loading == <<"l", "o", "a", "d", "i", "n", "g">>
w_locked == <<"l", "o", "c", "k", "e", "d">>
w_invalid == <<"i", "n", "v", "a", "l", "i", "d">>
\* Object.values(NodeStatus)
NodeStatus == {w_new, w_failed, w_loading, w_locked}

\* mime strings: image/jpeg matches /^[-\w.]+\/[-+\w.]+$/, image does not
w_image == <<"i", "m", "a", "g", "e">>
w_image_jpeg == <<"i", "m", "a", "g", "e", "/", "j", "p", "e", "g">>
mimeWellFormed(m) ==
  LET sl == {i \in 1..Len(m) : m[i] = "/"}
  IN Cardinality(sl) = 1 /\ m[1] # "/" /\ m[Len(m)] # "/"

(***************************************************************************)
(* lib/files/nodeData.ts                                                   *)
(***************************************************************************)
NoError == "none"

\* isDavRessource(source, davService): source.match(davService) !== null
isDavRessource(src, davService) == reTest(davService, src)

\* validateData(data, davService) for a node of the given type: the message
\* of the error it throws, NoError when it returns
validateData(d, type, davService) ==
  CASE ~(d.source.type = "string" /\ Len(d.source.str) > 0) ->
         "Missing mandatory source"
    [] ~parsesAsURL(d.source.str) ->
         "Invalid source format, source must be a valid URL"
    [] urlScheme(d.source.str) \notin {w_http, w_https} ->
         "Invalid source format, only http(s) is supported"
    [] d.id # Undefined /\ ~(d.id.type = "number" /\ d.id.num >= 0) ->
         "Invalid id type of value"
    [] d.mtime # Undefined /\ d.mtime.type # "date" -> "Invalid mtime type"
    [] d.crtime # Undefined /\ d.crtime.type # "date" -> "Invalid crtime type"
    [] d.size # Undefined /\ ~isNumber(d.size) -> "Invalid size type"
    [] type = "file" /\ ~(d.mime.type = "string" /\ mimeWellFormed(d.mime.str)) ->
         "Missing or invalid mandatory mime"
    [] d.attributes.type \notin {"undefined", "object"} ->
         "Invalid attributes type"
    [] d.permissions # Undefined
         /\ ~(d.permissions.type = "number"
              /\ d.permissions.num >= PermissionNONE
              /\ d.permissions.num <= PermissionALL) ->
         "Invalid permissions"
    [] d.owner # Undefined /\ d.owner.type \notin {"string", "null"} ->
         "Invalid owner"
    [] d.root # Undefined /\ d.root.type # "string" -> "Invalid root type"
    [] d.root # Undefined /\ ~startsWith(d.root.str, <<"/">>) ->
         "Root must start with a leading slash"
    [] d.root # Undefined /\ ~includes(urlPathname(d.source.str), d.root.str) ->
         "Root must be part of the source"
    [] d.root # Undefined /\ isDavRessource(d.source.str, davService)
         /\ ~includes(d.source.str,
                      reMatchText(davService, d.source.str) \o d.root.str) ->
         "The root must be relative to the service. e.g /files/emma"
    [] d.status # Undefined
         /\ ~(d.status.type = "string" /\ d.status.str \in NodeStatus) ->
         "Status must be a valid NodeStatus"
    [] OTHER -> NoError

(***************************************************************************)
(* lib/files/node.ts: the accessors, as functions of the stored data       *)
(* (_data), the stored attributes and the stored DAV service pattern       *)
(***************************************************************************)
\* /(remote|public)\.php\/(web)?dav/i
w_remote_dav == <<"r","e","m","o","t","e",".","p","h","p","/","d","a","v">>
w_remote_webdav ==
  <<"r","e","m","o","t","e",".","p","h","p","/","w","e","b","d","a","v">>
w_public_dav == <<"p","u","b","l","i","c",".","p","h","p","/","d","a","v">>
w_public_webdav ==
  <<"p","u","b","l","i","c",".","p","h","p","/","w","e","b","d","a","v">>
knownDavServiceDefault ==
  [alts |-> {w_remote_dav, w_remote_webdav, w_public_dav, w_public_webdav},
   ci |-> TRUE]

source(d) == stripEndingSlash(d.source.str)

basename(d) == posix_basename(source(d))

get_isDavRessource(d, davService) == isDavRessource(source(d), davService)

root(d, davService) ==
  IF truthy(d.root)
    THEN Str(stripRootEndingSlash(d.root.str))
    ELSE IF get_isDavRessource(d, davService)
      THEN LET r == splitPop(davService, posix_dirname(source(d)))
           IN IF Len(r) > 0 THEN Str(r) ELSE Null
      ELSE Null

\* this.source.slice(firstMatch + this.root.length) || '/'
sliceAfterRoot(d, davService) ==
  LET r == root(d, davService).str
      firstMatch == indexOf(source(d), r)
      rest == slice(source(d), firstMatch + Len(r))
  IN IF Len(rest) > 0 THEN rest ELSE <<"/">>

dirname(d, davService) ==
  IF truthy(root(d, davService))
    THEN posix_dirname(sliceAfterRoot(d, davService))
    ELSE posix_dirname(urlPathname(source(d)))

path(d, davService) ==
  IF truthy(root(d, davService))
    THEN sliceAfterRoot(d, davService)
    ELSE collapseDoubleSlash(dirname(d, davService) \o <<"/">> \o basename(d))

owner(d, davService) ==
  IF ~get_isDavRessource(d, davService) THEN Null ELSE d.owner

\* the permissions accessor testing the owner alone
permissions_ownerOnly(d, davService) ==
  IF owner(d, davService) = Null
    THEN Num(PermissionREAD)
    ELSE IF d.permissions # Undefined THEN d.permissions
         ELSE Num(PermissionNONE)

permissions(d, davService) ==
  IF owner(d, davService) = Null /\ ~get_isDavRessource(d, davService)
    THEN Num(PermissionREAD)
    ELSE IF d.permissions # Undefined THEN d.permissions
         ELSE Num(PermissionNONE)

\* this._data?.id || this.attributes?.fileid
fileid(d, a) == IF truthy(d.id) THEN d.id ELSE a["fileid"]

(***************************************************************************)
(* lib/files/node.ts: the operations, as functions from the stored data to *)
(* the outcome of the call: the error thrown (NoError when the call        *)
(* returns), the stored data afterwards, and the methods entered.          *)
(***************************************************************************)
\* updateMtime() without its test for an existing mtime
updateMtime_unconditional(d, now) == [d EXCEPT !.mtime = DateOf(now)]

\* updateMtime(), with now the value of new Date()
updateMtime(d, now) ==
  IF truthy(d.mtime) THEN [d EXCEPT !.mtime = DateOf(now)] ELSE d

\* move() assigning the source before it validates
move_commitsFirst(d, destination, davService, type, now) ==
  LET moved == [d EXCEPT !.source = destination]
      err == validateData(moved, type, davService)
  IN [err |-> err,
      data |-> IF err # NoError THEN moved ELSE updateMtime(moved, now),
      calls |-> <<"move">>]

\* move() storing a bag that keeps the source and the dates only
move_dropsPermissions(d, destination, davService, type, now) ==
  LET moved == [d EXCEPT !.source = destination]
      err == validateData(moved, type, davService)
  IN [err |-> err,
      data |-> IF err # NoError THEN d
               ELSE updateMtime([moved EXCEPT !.permissions = Undefined], now),
      calls |-> <<"move">>]

\* move() storing a bag whose root is left to be inferred again
move_forgetsRoot(d, destination, davService, type, now) ==
  LET moved == [d EXCEPT !.source = destination]
      err == validateData(moved, type, davService)
  IN [err |-> err,
      data |-> IF err # NoError THEN d
               ELSE updateMtime([moved EXCEPT !.root = Undefined], now),
      calls |-> <<"move">>]

move(d, destination, davService, type, now) ==
  LET err == validateData([d EXCEPT !.source = destination], type, davService)
  IN IF err # NoError
       THEN [err |-> err, data |-> d, calls |-> <<"move">>]
       ELSE [err |-> NoError,
             data |-> updateMtime([d EXCEPT !.source = destination], now),
             calls |-> <<"move">>]

\* rename() without its test for a slash
rename_unchecked(d, name, davService, type, now) ==
  LET m == move(d, Str(posix_dirname(source(d)) \o <<"/">> \o name),
                davService, type, now)
  IN [m EXCEPT !.calls = <<"rename">> \o m.calls]

rename(d, name, davService, type, now) ==
  IF includes(name, <<"/">>)
    THEN [err |-> "Invalid basename", data |-> d, calls |-> <<"rename">>]
    ELSE LET m == move(d, Str(posix_dirname(source(d)) \o <<"/">> \o name),
                       davService, type, now)
         IN [m EXCEPT !.calls = <<"rename">> \o m.calls]

\* the set trap of the attributes proxy
proxySet(d, a, prop, value, now) ==
  [data |-> updateMtime(d, now), attributes |-> [a EXCEPT ![prop] = value]]

\* the deleteProperty trap of the attributes proxy
proxyDeleteProperty(d, a, prop, now) ==
  [data |-> updateMtime(d, now), attributes |-> [a EXCEPT ![prop] = Undefined]]

\* set status(status)
setStatus(d, status) == [d EXCEPT !.status = status]

(***************************************************************************)
(* Inputs of the Node model                                                *)
(***************************************************************************)
\* the number of calls made on a Node after its construction; the clock
\* new Date() reads advances with every call
MaxCalls == 3

u_origin == <<"h", "t", "t", "p", "s", ":", "/", "/", "h">>
r_fe == <<"/", "f", "/", "e">>
w_test_dav == <<"t", "e", "s", "t", ".", "p", "h", "p", "/", "d", "a", "v">>
u_dav == u_origin \o <<"/">> \o w_remote_dav

\* 'https://h/remote.php/dav/f/e/p/a'
s_file == u_dav \o r_fe \o <<"/", "p", "/", "a">>
\* 'https://h/remote.php/dav/f/e/p/'
s_folder == u_dav \o r_fe \o <<"/", "p", "/">>
\* 'https://h/remote.php/dav/f/e//'
s_slashes == u_dav \o r_fe \o <<"/", "/">>
\* 'https://h/f/e/a'
s_remote == u_origin \o r_fe \o <<"/", "a">>
\* 'https://h/remote.php/dav/f/e'
s_isroot == u_dav \o r_fe
\* 'https://h/remote.php/DAV/a'
s_top == u_origin \o <<"/", "r", "e", "m", "o", "t", "e", ".", "p", "h", "p",
                       "/", "D", "A", "V", "/", "a">>
\* 'https://h/test.php/dav/f/e/a'
s_custom == u_origin \o <<"/">> \o w_test_dav \o r_fe \o <<"/", "a">>
\* 'h/remote.php/dav/f/e/a'
s_noscheme == <<"h", "/">> \o w_remote_dav \o r_fe \o <<"/", "a">>
\* 'ftp://h/remote.php/dav/f/e/a'
s_ftp == <<"f", "t", "p", ":", "/", "/", "h", "/">> \o w_remote_dav \o r_fe
           \o <<"/", "a">>
\* 'https://h/remote.php/dav/f/e/b'
d_sibling == u_dav \o r_fe \o <<"/", "b">>
\* 'https://h/remote.php/dav/x/b'
d_other == u_dav \o <<"/", "x", "/", "b">>
\* 'https://h/g//'
d_slashes == u_origin \o <<"/", "g", "/", "/">>

\* 'https://h/f/remote.php/dav/f/a': the server lives under '/f'
s_prefixed == u_origin \o <<"/", "f", "/">> \o w_remote_dav \o <<"/", "f", "/", "a">>
\* 'https://h/remote.php/dav/f/remote.php/dav/e/a'
s_twice == u_dav \o <<"/", "f", "/">> \o w_remote_dav \o <<"/", "e", "/", "a">>
\* 'https://h/remote.php/dav/x/remote.php/dav'
s_straddle == u_dav \o <<"/", "x", "/">> \o w_remote_dav
\* 'https://h/remote.php/dav': the service itself
s_service == u_dav

ValidSources == {s_file, s_folder, s_slashes, s_remote, s_isroot, s_top, s_custom}
InvalidSources == {Undefined, Str(EmptyStr), Str(s_noscheme), Str(s_ftp), Bool(TRUE)}
Roots == {Undefined, Str(r_fe), Str(r_fe \o <<"/">>)}
InvalidRoots == {Bool(TRUE), Str(<<"f", "e">>), Str(<<"/", "z">>),
                 Str(<<"/">> \o w_remote_dav \o r_fe)}
Owners == {Str(<<"e">>), Null}
Destinations == {Str(s_file), Str(d_sibling), Str(s_folder), Str(d_other),
                 Str(s_remote), Str(d_slashes), Str(s_noscheme)}
Basenames == {<<"b">>, EmptyStr, <<"a", "/", "b">>}
AttrKeys == {"fileid", "k"}
AttrValues == {Num(9)}
StatusValues == {Undefined, Str(w_new), Str(w_invalid)}
EmptyAttributes == [k \in AttrKeys |-> Undefined]
\* the attributes field of a data bag: its runtime type and, for an object,
\* its mapping
Obj(map) == [type |-> "object", map |-> map]
NoAttributes == [type |-> "undefined", map |-> EmptyAttributes]
BadAttributes == [type |-> "string", map |-> EmptyAttributes]
\* no davService argument
NoRegExp == [alts |-> {}, ci |-> FALSE]
\* the davService arguments: none, and the custom pattern /test\.php\/dav/
DavServices == {NoRegExp, [alts |-> {w_test_dav}, ci |-> FALSE]}

NoData ==
  [source |-> Undefined, id |-> Undefined, mtime |-> Undefined,
   crtime |-> Undefined, mime |-> Undefined, size |-> Undefined,
   permissions |-> Undefined, owner |-> Undefined, root |-> Undefined,
   status |-> Undefined, attributes |-> NoAttributes]

\* a bag every check accepts, for a File as for a Folder
BaseData ==
  [NoData EXCEPT !.source = Str(s_file), !.id = Num(7), !.mtime = DateOf(0),
                 !.crtime = DateOf(0), !.mime = Str(w_image_jpeg),
                 !.size = Num(3), !.owner = Str(<<"e">>)]

\* the data bags given to the constructor: bags that vary the fields the
\* path accessors are derived from, bags that vary the fields the permissions
\* are derived from, and BaseData with one field changed
PathBags ==
  {[BaseData EXCEPT !.source = Str(src), !.root = rt, !.mtime = mt] :
     src \in ValidSources, rt \in Roots, mt \in {Undefined, DateOf(0)}}

PermissionBags ==
  {[BaseData EXCEPT !.source = Str(src), !.owner = ow, !.permissions = pm] :
     src \in {s_file, s_remote}, ow \in Owners,
     pm \in {Undefined, Num(4), Num(31)}}

OneFieldBags ==
  {[BaseData EXCEPT !.source = v] : v \in InvalidSources}
  \cup {[BaseData EXCEPT !.id = v] :
          v \in {Undefined, Num(0), Num(-1), Str(<<"7">>), Frac(3)}}
  \cup {[BaseData EXCEPT !.mtime = v] : v \in {Str(w_invalid)}}
  \cup {[BaseData EXCEPT !.crtime = v] : v \in {Undefined, Str(w_invalid)}}
  \cup {[BaseData EXCEPT !.size = v] : v \in {Undefined, Str(w_invalid)}}
  \cup {[BaseData EXCEPT !.mime = v] : v \in {Undefined, Str(w_image)}}
  \cup {[BaseData EXCEPT !.permissions = v] :
          v \in {Num(0), Num(324), Num(-1), Str(w_invalid)}}
  \cup {[BaseData EXCEPT !.owner = v] : v \in {Undefined, Bool(TRUE)}}
  \cup {[BaseData EXCEPT !.root = v] : v \in InvalidRoots}
  \cup {[BaseData EXCEPT !.status = v] : v \in StatusValues}
  \cup {[BaseData EXCEPT !.attributes = v] :
          v \in {Obj(EmptyAttributes),
                 Obj([EmptyAttributes EXCEPT !["fileid"] = Num(9)]),
                 BadAttributes}}

\* bags whose root is inferred from a source that holds the service token or
\* the text of the root more than once, and bags whose root is '/'
RootBags ==
  {[BaseData EXCEPT !.source = Str(src)] :
     src \in {s_prefixed, s_twice, s_straddle, s_service}}
  \cup {[BaseData EXCEPT !.source = Str(src), !.root = Str(<<"/">>)] :
          src \in {s_file, s_remote}}

Bags == PathBags \cup PermissionBags \cup OneFieldBags \cup RootBags

\* new File(bag), new Folder(bag) with the bags whose mime decides, and
\* new File(bag, /test\.php\/dav/) with the bags whose source decides
Constructions ==
  {<<b, "file", NoRegExp>> : b \in Bags}
  \cup {<<b, "folder", NoRegExp>> :
          b \in {[BaseData EXCEPT !.mime = v] : v \in {Undefined, Str(w_image)}}
                \cup {[BaseData EXCEPT !.source = Str(s_folder), !.mime = Undefined]}}
  \cup {<<[BaseData EXCEPT !.source = Str(src), !.root = rt], "file", dav>> :
          src \in {s_file, s_custom}, rt \in {Undefined, Str(r_fe)},
          dav \in DavServices \ {NoRegExp}}

(***************************************************************************)
(* lib/fileAction.ts: the registry.  window._nc_fileactions is an array or *)
(* undefined; an array is its identity (ref, 0 for undefined) and its      *)
(* items.  A FileAction is its id and the identity of the object.          *)
(***************************************************************************)
NoLog == "none"
NoArray == [ref |-> 0, items |-> << >>]

ActionIds == {"view", "edit", "delete"}
ActionObjects == {1, 2}
FileActions == [id : ActionIds, obj : ActionObjects]
\* the number of registerFileAction calls
MaxRegistrations == 3

\* window._nc_fileactions.find(search => search.id === action.id)
findById(items, id) == \E i \in 1..Len(items) : items[i].id = id

\* registerFileAction() without its test for duplicates
registerFileAction_unchecked(array, action) ==
  LET init == IF array.ref = 0 THEN [ref |-> 1, items |-> << >>] ELSE array
  IN [array |-> [init EXCEPT !.items = Append(@, action)],
      log |-> IF array.ref = 0 THEN "debug" ELSE NoLog]

registerFileAction(array, action) ==
  LET init == IF array.ref = 0 THEN [ref |-> 1, items |-> << >>] ELSE array
  IN IF findById(init.items, action.id)
       THEN [array |-> init, log |-> "error"]
       ELSE [array |-> [init EXCEPT !.items = Append(@, action)],
             log |-> IF array.ref = 0 THEN "debug" ELSE NoLog]

getFileActions(array) ==
  LET init == IF array.ref = 0 THEN [ref |-> 1, items |-> << >>] ELSE array
  IN [array |-> init, returned |-> init.ref,
      log |-> IF array.ref = 0 THEN "debug" ELSE NoLog]

(***************************************************************************)
(* lib/newFileMenu.ts: the NewFileMenu class.  An Entry is a record of     *)
(* JavaScript values; a function value is Fn(mask), as an `if` predicate   *)
(* the function folder => (folder.permissions & mask) !== 0.               *)
(***************************************************************************)
Fn(mask) == Value("function", << >>, mask)
PermissionCREATE == 4

RECURSIVE bitAnd(_, _)
bitAnd(a, b) ==
  IF a = 0 \/ b = 0 THEN 0
  ELSE (a % 2) * (b % 2) + 2 * bitAnd(a \div 2, b \div 2)

\* this._entries.findIndex(entry => entry.id === id), from 1; 0 when absent
getEntryIndex(list, id) ==
  LET found == {i \in 1..Len(list) : list[i].id = id}
  IN IF found = {} THEN 0 ELSE CHOOSE i \in found : \A j \in found : i <= j

\* the message of the error the validation of an entry throws against the
\* registered entries, NoError when it passes
validateEntry(list, entry) ==
  CASE ~truthy(entry.id) \/ ~truthy(entry.displayName)
         \/ ~(truthy(entry.iconSvgInline) \/ truthy(entry.iconClass)) ->
         "Invalid entry"
    [] entry.id.type # "string" \/ entry.displayName.type # "string" ->
         "Invalid id or displayName property"
    [] (truthy(entry.iconClass) /\ entry.iconClass.type # "string")
         \/ (truthy(entry.iconSvgInline) /\ entry.iconSvgInline.type # "string") ->
         "Invalid icon provided"
    [] entry.if # Undefined /\ entry.if.type # "function" ->
         "Invalid if property"
    [] truthy(entry.templateName) /\ entry.templateName.type # "string" ->
         "Invalid templateName property"
    [] truthy(entry.handler) /\ entry.handler.type # "function" ->
         "Invalid handler property"
    [] ~truthy(entry.templateName) /\ ~truthy(entry.handler) ->
         "At least a templateName or a handler must be provided"
    [] getEntryIndex(list, entry.id) # 0 -> "Duplicate entry"
    [] OTHER -> NoError

\* registerEntry() without the test for a registered id
registerEntry_unchecked(list, entry) ==
  LET err == validateEntry(<< >>, entry)
  IN [err |-> err, entries |-> IF err = NoError THEN Append(list, entry) ELSE list]

registerEntry(list, entry) ==
  LET err == validateEntry(list, entry)
  IN [err |-> err, entries |-> IF err = NoError THEN Append(list, entry) ELSE list]

removeAt(list, i) == SubSeq(list, 1, i - 1) \o SubSeq(list, i + 1, Len(list))

\* unregisterEntry() without its test for an entry that is not found:
\* splice(-1, 1) removes the last entry
unregisterEntry_spliceUnfound(list, entry, byId) ==
  LET found == {i \in 1..Len(list) :
                  IF byId THEN list[i].id = entry.id ELSE list[i] = entry}
      index == IF found = {} THEN 0
               ELSE CHOOSE i \in found : \A j \in found : i <= j
  IN IF index = 0
       THEN [entries |-> SubSeq(list, 1, Len(list) - 1), log |-> "warn"]
       ELSE [entries |-> removeAt(list, index), log |-> NoLog]

\* unregisterEntry(entry): entry is an Entry, or (byId) an id held in entry.id
unregisterEntry(list, entry, byId) ==
  LET found == {i \in 1..Len(list) :
                  IF byId THEN list[i].id = entry.id ELSE list[i] = entry}
      index == IF found = {} THEN 0
               ELSE CHOOSE i \in found : \A j \in found : i <= j
  IN IF index = 0
       THEN [entries |-> list, log |-> "warn"]
       ELSE [entries |-> removeAt(list, index), log |-> NoLog]

\* entry.if(context), for a context that is a Folder with stored data ctx
evalIf(entry, ctx) ==
  bitAnd(permissions(ctx, knownDavServiceDefault).num, entry.if.num) # 0

RECURSIVE filterEntries(_, _)
filterEntries(list, ctx) ==
  IF list = << >> THEN << >>
  ELSE (IF Head(list).if.type = "function" => evalIf(Head(list), ctx)
          THEN <<Head(list)>> ELSE << >>)
       \o filterEntries(Tail(list), ctx)

\* getEntries() ignoring the `if` of the entries
getEntries_unfiltered(list, ctx) == list

\* getEntries(context?): ctx is the stored data of the context Folder, NoData
\* when no context is given
getEntries(list, ctx) ==
  IF ctx # NoData THEN filterEntries(list, ctx) ELSE list

\* inputs of the menu
\* getNewFileMenu() creating a NewFileMenu at every call
getNewFileMenu_alwaysNew(menu, insts) ==
  [menu |-> Len(insts) + 1, instances |-> Append(insts, << >>),
   log |-> "debug"]

\* getNewFileMenu(), with menu the value of window._nc_newfilemenu and insts
\* the NewFileMenu objects created so far: the value stored afterwards, which
\* is the one returned, the objects afterwards and the logger method used
getNewFileMenu(menu, insts) ==
  IF menu = 0
    THEN [menu |-> Len(insts) + 1, instances |-> Append(insts, << >>),
          log |-> "debug"]
    ELSE [menu |-> menu, instances |-> insts, log |-> NoLog]

w_a == <<"a">>
w_b == <<"b">>
w_c == <<"c">>
w_zzz == <<"z", "z", "z">>
NoEntry ==
  [id |-> Undefined, displayName |-> Undefined, templateName |-> Undefined,
   iconClass |-> Undefined, iconSvgInline |-> Undefined, if |-> Undefined,
   handler |-> Undefined]
BaseEntry ==
  [NoEntry EXCEPT !.id = Str(w_a), !.displayName = Str(<<"n">>),
                  !.templateName = Str(<<"t">>), !.iconClass = Str(<<"i">>),
                  !.handler = Fn(0)]
ValidEntries ==
  {[BaseEntry EXCEPT !.id = Str(i), !.if = f] :
     i \in {w_a, w_b, w_c}, f \in {Undefined, Fn(PermissionCREATE)}}
InvalidEntries ==
  {NoEntry,
   [BaseEntry EXCEPT !.id = Num(123456)],
   [BaseEntry EXCEPT !.displayName = Num(123456)],
   [BaseEntry EXCEPT !.templateName = Num(123465)],
   [BaseEntry EXCEPT !.iconClass = Num(123456)],
   [BaseEntry EXCEPT !.iconClass = Undefined, !.iconSvgInline = Num(123456)],
   [BaseEntry EXCEPT !.if = Bool(TRUE)],
   [BaseEntry EXCEPT !.handler = Str(<<"h">>)],
   [BaseEntry EXCEPT !.templateName = Undefined, !.handler = Undefined]}
EntryInputs == ValidEntries \cup InvalidEntries
EntryIdInputs == {[NoEntry EXCEPT !.id = Str(i)] : i \in {w_a, w_b, w_c, w_zzz}}
\* the context Folders: permissions NONE, READ, CREATE and ALL
s_context == u_dav \o r_fe \o <<"/", "q">>
Contexts ==
  {[NoData EXCEPT !.source = Str(s_context), !.owner = Str(<<"e">>),
                  !.permissions = Num(p)] : p \in {0, 1, 4, 31}}

(***************************************************************************)
(* lib/fileAction.ts: the FileAction class.  A FileActionData object maps  *)
(* each key to its value, or to Absent when the object has no such key.    *)
(***************************************************************************)
Absent == Value("absent", << >>, 0)

\* 'key' in action
hasKey(action, key) == action[key] # Absent

\* action[key]
getKey(action, key) == IF action[key] = Absent THEN Undefined ELSE action[key]

\* Object.values(DefaultType)
w_default == <<"d", "e", "f", "a", "u", "l", "t">>
w_hidden == <<"h", "i", "d", "d", "e", "n">>
DefaultType == {w_default, w_hidden}

\* validateAction() testing the title after iconSvgInline and exec
validateAction_titleLate(action) ==
  CASE ~truthy(getKey(action, "id")) \/ getKey(action, "id").type # "string" ->
         "Invalid id"
    [] ~truthy(getKey(action, "displayName"))
         \/ getKey(action, "displayName").type # "function" ->
         "Invalid displayName function"
    [] ~truthy(getKey(action, "iconSvgInline"))
         \/ getKey(action, "iconSvgInline").type # "function" ->
         "Invalid iconSvgInline function"
    [] ~truthy(getKey(action, "exec"))
         \/ getKey(action, "exec").type # "function" ->
         "Invalid exec function"
    [] hasKey(action, "title") /\ getKey(action, "title").type # "function" ->
         "Invalid title function"
    [] hasKey(action, "enabled") /\ getKey(action, "enabled").type # "function" ->
         "Invalid enabled function"
    [] hasKey(action, "execBatch")
         /\ getKey(action, "execBatch").type # "function" ->
         "Invalid execBatch function"
    [] hasKey(action, "order") /\ ~isNumber(getKey(action, "order")) ->
         "Invalid order"
    [] truthy(getKey(action, "default"))
         /\ ~(getKey(action, "default").type = "string"
              /\ getKey(action, "default").str \in DefaultType) ->
         "Invalid default"
    [] hasKey(action, "inline") /\ getKey(action, "inline").type # "function" ->
         "Invalid inline function"
    [] hasKey(action, "renderInline")
         /\ getKey(action, "renderInline").type # "function" ->
         "Invalid renderInline function"
    [] OTHER -> NoError

\* validateAction(action): the message of the error it throws, NoError when
\* it returns
validateAction(action) ==
  CASE ~truthy(getKey(action, "id")) \/ getKey(action, "id").type # "string" ->
         "Invalid id"
    [] ~truthy(getKey(action, "displayName"))
         \/ getKey(action, "displayName").type # "function" ->
         "Invalid displayName function"
    [] hasKey(action, "title") /\ getKey(action, "title").type # "function" ->
         "Invalid title function"
    [] ~truthy(getKey(action, "iconSvgInline"))
         \/ getKey(action, "iconSvgInline").type # "function" ->
         "Invalid iconSvgInline function"
    [] ~truthy(getKey(action, "exec"))
         \/ getKey(action, "exec").type # "function" ->
         "Invalid exec function"
    [] hasKey(action, "enabled") /\ getKey(action, "enabled").type # "function" ->
         "Invalid enabled function"
    [] hasKey(action, "execBatch")
         /\ getKey(action, "execBatch").type # "function" ->
         "Invalid execBatch function"
    [] hasKey(action, "order") /\ ~isNumber(getKey(action, "order")) ->
         "Invalid order"
    [] truthy(getKey(action, "default"))
         /\ ~(getKey(action, "default").type = "string"
              /\ getKey(action, "default").str \in DefaultType) ->
         "Invalid default"
    [] hasKey(action, "inline") /\ getKey(action, "inline").type # "function" ->
         "Invalid inline function"
    [] hasKey(action, "renderInline")
         /\ getKey(action, "renderInline").type # "function" ->
         "Invalid renderInline function"
    [] OTHER -> NoError

ActionKeys ==
  {"id", "displayName", "title", "iconSvgInline", "exec", "enabled",
   "execBatch", "order", "default", "inline", "renderInline"}

\* no FileAction
NoAction == [k \in ActionKeys |-> Absent]

\* new FileAction(action): the error thrown and the _action of the object made
newFileAction(action) ==
  LET err == validateAction(action)
  IN [err |-> err, action |-> IF err = NoError THEN action ELSE NoAction]

\* the least FileActionData that is accepted, and one with every key
BaseAction ==
  [NoAction EXCEPT !["id"] = Str(<<"v">>), !["displayName"] = Fn(0),
                   !["iconSvgInline"] = Fn(0), !["exec"] = Fn(0)]
FullAction ==
  [BaseAction EXCEPT !["title"] = Fn(0), !["enabled"] = Fn(0),
                     !["execBatch"] = Fn(0), !["order"] = Num(0),
                     !["default"] = Str(w_hidden), !["inline"] = Fn(0),
                     !["renderInline"] = Fn(0)]

\* values for one key: a value of the wrong type, the key with undefined, no
\* key, the empty string
WrongValue(key) == IF key = "id" THEN Num(1) ELSE Str(w_invalid)
KeyValues(key) == {WrongValue(key), Undefined, Absent, Str(EmptyStr)}

\* the FileActionData given to the constructor: the two above with one or two
\* keys changed
ActionDatas ==
  {BaseAction, FullAction}
  \cup UNION {{[a EXCEPT ![k] = v] :
                  a \in {BaseAction, FullAction}, v \in KeyValues(k)} :
                k \in ActionKeys}
  \cup {[FullAction EXCEPT ![k] = WrongValue(k), ![l] = WrongValue(l)] :
          k \in ActionKeys, l \in ActionKeys}

(***************************************************************************)
(* State.  The three components (a Node, the file action registry, the new *)
(* file menu) do not touch each other's state; each has its own            *)
(* specification below.                                                    *)
(***************************************************************************)
VARIABLES
  constructed,      \* a Node exists
  nodeType,         \* "file" or "folder"
  data,             \* this._data
  attributes,       \* this._attributes (the target of the proxy)
  knownDavService,  \* this._knownDavService
  clock,            \* the time new Date() reads; one tick per call
  nc_fileactions,   \* window._nc_fileactions
  returned,         \* the identity of the array the last getFileActions()
                    \* returned, 0 before the first call
  history,          \* the actions passed to registerFileAction so far
  fileAction,       \* the _action of the FileAction the last new FileAction()
                    \* made, NoAction when it threw
  entries,          \* NewFileMenu._entries
  result,           \* the list the last call returned, if it was getEntries()
  lastEntry,        \* the Entry (or the id, in an Entry) given to the last call
  lastContext,      \* the context Folder given to the last getEntries()
  callerAttributes, \* the target of the attributes proxy is the object the
                    \* caller passed as data.attributes
  nc_newfilemenu,   \* window._nc_newfilemenu: the identity of a NewFileMenu,
                    \* 0 for undefined
  instances,        \* the _entries of every NewFileMenu that getNewFileMenu()
                    \* created, by identity
  menuReturned,     \* the identity the last getNewFileMenu() returned
  lastCall,         \* the methods the last call entered, outermost first
  lastArg,          \* the argument of the last call
  lastError,        \* the message of the error the last call threw, or NoError
  lastLog           \* the logger method the last call used, or NoLog

nodeVars ==
  <<constructed, nodeType, data, attributes, knownDavService, clock,
    callerAttributes>>
singletonVars == <<nc_newfilemenu, instances, menuReturned>>
actionVars == <<nc_fileactions, returned, history, fileAction>>
menuVars == <<entries, result, lastEntry, lastContext>>
callVars == <<lastCall, lastArg, lastError, lastLog>>
vars == <<nodeVars, actionVars, menuVars, singletonVars, callVars>>

NodeInit ==
  /\ constructed = FALSE
  /\ nodeType = "file"
  /\ data = NoData
  /\ attributes = EmptyAttributes
  /\ knownDavService = knownDavServiceDefault
  /\ clock = 1
  /\ callerAttributes = FALSE

ActionsInit ==
  /\ nc_fileactions = NoArray
  /\ returned = 0
  /\ history = << >>
  /\ fileAction = NoAction

MenuInit ==
  /\ entries = << >>
  /\ result = << >>
  /\ lastEntry = NoEntry
  /\ lastContext = NoData

CallInit ==
  /\ lastCall = << >>
  /\ lastArg = Undefined
  /\ lastError = NoError
  /\ lastLog = NoLog

SingletonInit ==
  /\ nc_newfilemenu = 0
  /\ instances = << >>
  /\ menuReturned = 0

Init == NodeInit /\ ActionsInit /\ MenuInit /\ SingletonInit /\ CallInit

\* the last call was a call of method
LastWas(method) == Len(lastCall) > 0 /\ lastCall[1] = method

(***************************************************************************)
(* The Node state machine: one Node, constructed once, then called.        *)
(***************************************************************************)
\* constructor(data, davService?) of a File or a Folder: the error thrown and
\* the fields of the Node made
newNode(bag, type, davService) ==
  LET service == IF davService # NoRegExp THEN davService
                 ELSE knownDavServiceDefault
  IN [err |-> validateData(bag, type, service),
      data |-> [bag EXCEPT !.attributes = NoAttributes],
      attributes |-> IF bag.attributes.type = "object"
                       THEN bag.attributes.map
                       ELSE EmptyAttributes,
      knownDavService |-> service]

\* constructor(data, davService?)
Construct(bag, type, davService) ==
  LET r == newNode(bag, type, davService)
      err == r.err
  IN /\ ~constructed
     /\ lastCall = << >>
     /\ lastCall' = <<"constructor">>
     /\ lastArg' = Undefined
     /\ lastError' = err
     /\ lastLog' = NoLog
     /\ nodeType' = type
     /\ clock' = clock
     /\ IF err = NoError
          THEN /\ constructed' = TRUE
               /\ data' = r.data
               /\ attributes' = r.attributes
               /\ knownDavService' = r.knownDavService
               /\ callerAttributes' = (bag.attributes.type = "object")
          ELSE UNCHANGED <<constructed, data, attributes, knownDavService,
                           callerAttributes>>
     /\ UNCHANGED <<actionVars, menuVars, singletonVars>>

Called == constructed /\ clock <= MaxCalls

Move(destination) ==
  LET r == move(data, destination, knownDavService, nodeType, clock)
  IN /\ Called
     /\ clock' = clock + 1
     /\ data' = r.data
     /\ lastCall' = r.calls
     /\ lastArg' = destination
     /\ lastError' = r.err
     /\ lastLog' = NoLog
     /\ UNCHANGED <<constructed, nodeType, attributes, knownDavService,
                  callerAttributes>>
     /\ UNCHANGED <<actionVars, menuVars, singletonVars>>

Rename(name) ==
  LET r == rename(data, name, knownDavService, nodeType, clock)
  IN /\ Called
     /\ clock' = clock + 1
     /\ data' = r.data
     /\ lastCall' = r.calls
     /\ lastArg' = Str(name)
     /\ lastError' = r.err
     /\ lastLog' = NoLog
     /\ UNCHANGED <<constructed, nodeType, attributes, knownDavService,
                  callerAttributes>>
     /\ UNCHANGED <<actionVars, menuVars, singletonVars>>

\* node.attributes[prop] = value
SetAttribute(prop, value) ==
  LET r == proxySet(data, attributes, prop, value, clock)
  IN /\ Called
     /\ clock' = clock + 1
     /\ data' = r.data
     /\ attributes' = r.attributes
     /\ lastCall' = <<"set", prop>>
     /\ lastArg' = value
     /\ lastError' = NoError
     /\ lastLog' = NoLog
     /\ UNCHANGED <<constructed, nodeType, knownDavService, callerAttributes>>
     /\ UNCHANGED <<actionVars, menuVars, singletonVars>>

\* delete node.attributes[prop]
DeleteAttribute(prop) ==
  LET r == proxyDeleteProperty(data, attributes, prop, clock)
  IN /\ Called
     /\ clock' = clock + 1
     /\ data' = r.data
     /\ attributes' = r.attributes
     /\ lastCall' = <<"deleteProperty", prop>>
     /\ lastArg' = Undefined
     /\ lastError' = NoError
     /\ lastLog' = NoLog
     /\ UNCHANGED <<constructed, nodeType, knownDavService, callerAttributes>>
     /\ UNCHANGED <<actionVars, menuVars, singletonVars>>

\* node.status = status
SetStatus(status) ==
  /\ Called
  /\ clock' = clock + 1
  /\ data' = setStatus(data, status)
  /\ lastCall' = <<"status">>
  /\ lastArg' = status
  /\ lastError' = NoError
  /\ lastLog' = NoLog
  /\ UNCHANGED <<constructed, nodeType, attributes, knownDavService,
                  callerAttributes>>
  /\ UNCHANGED <<actionVars, menuVars, singletonVars>>

NodeNext ==
  \/ \E c \in Constructions : Construct(c[1], c[2], c[3])
  \/ \E destination \in Destinations : Move(destination)
  \/ \E name \in Basenames : Rename(name)
  \/ \E prop \in AttrKeys, value \in AttrValues : SetAttribute(prop, value)
  \/ \E prop \in AttrKeys : DeleteAttribute(prop)
  \/ \E status \in StatusValues : SetStatus(status)

Next == NodeNext
Spec == Init /\ [][Next]_vars

(***************************************************************************)
(* The Node and the caller that constructed it.  The constructor stores    *)
(* the object it is given (this._data = data) and wraps the attributes     *)
(* object it is given in the proxy: the caller still holds both objects.   *)
(***************************************************************************)
\* the writes the caller makes to the bag it passed: bag[field] = value
CallerWrites ==
  {<<"source", Str(d_sibling)>>, <<"source", Str(s_noscheme)>>,
   <<"mtime", Undefined>>, <<"permissions", Num(324)>>}

\* bag[field] = value, on the object that is this._data
CallerWritesBag(field, value) ==
  /\ constructed
  /\ data' = [data EXCEPT ![field] = value]
  /\ lastCall' = <<"caller", "data", field>>
  /\ lastArg' = value
  /\ lastError' = NoError
  /\ lastLog' = NoLog
  /\ UNCHANGED <<constructed, nodeType, attributes, knownDavService, clock,
                  callerAttributes>>
  /\ UNCHANGED <<actionVars, menuVars, singletonVars>>

\* attrs[prop] = value, on the object that is the target of the proxy
CallerWritesAttributes(prop, value) ==
  /\ constructed
  /\ callerAttributes
  /\ attributes' = [attributes EXCEPT ![prop] = value]
  /\ lastCall' = <<"caller", "attributes", prop>>
  /\ lastArg' = value
  /\ lastError' = NoError
  /\ lastLog' = NoLog
  /\ UNCHANGED <<constructed, nodeType, data, knownDavService, clock,
                  callerAttributes>>
  /\ UNCHANGED <<actionVars, menuVars, singletonVars>>

CallerNext ==
  \/ \E c \in Constructions : Construct(c[1], c[2], c[3])
  \/ \E w \in CallerWrites : CallerWritesBag(w[1], w[2])
  \/ \E prop \in AttrKeys, value \in AttrValues :
       CallerWritesAttributes(prop, value)

SpecCaller == Init /\ [][CallerNext]_vars

(***************************************************************************)
(* The file action registry state machine                                  *)
(***************************************************************************)
RegisterFileAction(action) ==
  LET r == registerFileAction(nc_fileactions, action)
  IN /\ Len(history) < MaxRegistrations
     /\ nc_fileactions' = r.array
     /\ history' = Append(history, action)
     /\ lastCall' = <<"registerFileAction">>
     /\ lastArg' = Undefined
     /\ lastError' = NoError
     /\ lastLog' = r.log
     /\ UNCHANGED <<returned, fileAction, nodeVars, menuVars, singletonVars>>

GetFileActions ==
  LET r == getFileActions(nc_fileactions)
  IN /\ nc_fileactions' = r.array
     /\ returned' = r.returned
     /\ lastCall' = <<"getFileActions">>
     /\ lastArg' = Undefined
     /\ lastError' = NoError
     /\ lastLog' = r.log
     /\ UNCHANGED <<history, fileAction, nodeVars, menuVars, singletonVars>>

ActionsNext ==
  \/ \E action \in FileActions : RegisterFileAction(action)
  \/ GetFileActions

SpecActions == Init /\ [][ActionsNext]_vars

(***************************************************************************)
(* The FileAction constructor, next to the registry                        *)
(***************************************************************************)
\* new FileAction(action)
NewFileAction(action) ==
  LET r == newFileAction(action)
  IN /\ fileAction' = r.action
     /\ lastCall' = <<"FileAction">>
     /\ lastArg' = Undefined
     /\ lastEntry' = action
     /\ lastError' = r.err
     /\ lastLog' = NoLog
     /\ UNCHANGED <<nc_fileactions, returned, history>>
     /\ UNCHANGED <<entries, result, lastContext, nodeVars, singletonVars>>

FileActionNext ==
  \/ \E action \in ActionDatas : NewFileAction(action)
  \/ \E action \in {a \in FileActions : a.obj = 1 /\ a.id # "delete"} :
       RegisterFileAction(action)
  \/ GetFileActions

SpecFileAction == Init /\ [][FileActionNext]_vars

(***************************************************************************)
(* The new file menu state machine: one NewFileMenu                        *)
(***************************************************************************)
RegisterEntry(entry) ==
  LET r == registerEntry(entries, entry)
  IN /\ entries' = r.entries
     /\ result' = << >>
     /\ lastEntry' = entry
     /\ lastContext' = NoData
     /\ lastCall' = <<"registerEntry">>
     /\ lastError' = r.err
     /\ lastLog' = NoLog
     /\ UNCHANGED <<lastArg, nodeVars, actionVars, singletonVars>>

\* unregisterEntry(entry) with an Entry
UnregisterEntry(entry) ==
  LET r == unregisterEntry(entries, entry, FALSE)
  IN /\ entries' = r.entries
     /\ result' = << >>
     /\ lastEntry' = entry
     /\ lastContext' = NoData
     /\ lastCall' = <<"unregisterEntry", "entry">>
     /\ lastError' = NoError
     /\ lastLog' = r.log
     /\ UNCHANGED <<lastArg, nodeVars, actionVars, singletonVars>>

\* unregisterEntry(id) with a string
UnregisterEntryById(entry) ==
  LET r == unregisterEntry(entries, entry, TRUE)
  IN /\ entries' = r.entries
     /\ result' = << >>
     /\ lastEntry' = entry
     /\ lastContext' = NoData
     /\ lastCall' = <<"unregisterEntry", "id">>
     /\ lastError' = NoError
     /\ lastLog' = r.log
     /\ UNCHANGED <<lastArg, nodeVars, actionVars, singletonVars>>

GetEntries(ctx) ==
  /\ result' = getEntries(entries, ctx)
  /\ lastEntry' = NoEntry
  /\ lastContext' = ctx
  /\ lastCall' = <<"getEntries">>
  /\ lastError' = NoError
  /\ lastLog' = NoLog
  /\ UNCHANGED <<entries, lastArg, nodeVars, actionVars, singletonVars>>

MenuNext ==
  \/ \E entry \in EntryInputs : RegisterEntry(entry)
  \/ \E entry \in ValidEntries : UnregisterEntry(entry)
  \/ \E entry \in EntryIdInputs : UnregisterEntryById(entry)
  \/ \E ctx \in Contexts \cup {NoData} : GetEntries(ctx)

SpecMenu == Init /\ [][MenuNext]_vars

(***************************************************************************)
(* The process-wide NewFileMenu: getNewFileMenu() and registerEntry() on   *)
(* what it returned                                                        *)
(***************************************************************************)
GetNewFileMenu ==
  LET r == getNewFileMenu(nc_newfilemenu, instances)
  IN /\ nc_newfilemenu' = r.menu
     /\ instances' = r.instances
     /\ menuReturned' = r.menu
     /\ lastCall' = <<"getNewFileMenu">>
     /\ lastEntry' = NoEntry
     /\ lastError' = NoError
     /\ lastLog' = r.log
     /\ UNCHANGED <<entries, result, lastContext, lastArg, nodeVars, actionVars>>

\* menu.registerEntry(entry), menu being what getNewFileMenu() last returned
RegisterEntryOnMenu(entry) ==
  LET r == registerEntry(instances[menuReturned], entry)
  IN /\ menuReturned # 0
     /\ instances' = [instances EXCEPT ![menuReturned] = r.entries]
     /\ lastCall' = <<"registerEntry">>
     /\ lastEntry' = entry
     /\ lastError' = r.err
     /\ lastLog' = NoLog
     /\ UNCHANGED <<nc_newfilemenu, menuReturned>>
     /\ UNCHANGED <<entries, result, lastContext, lastArg, nodeVars, actionVars>>

SingletonNext ==
  \/ GetNewFileMenu
  \/ \E entry \in EntryInputs : RegisterEntryOnMenu(entry)

SpecSingleton == Init /\ [][SingletonNext]_vars

(***************************************************************************)
(* Properties of the Node                                                  *)
(***************************************************************************)
\* what a caller can observe of a Node with stored data d, attributes a and
\* DAV service pattern davService
Observable(d, a, davService) ==
  <<source(d), root(d, davService), path(d, davService),
    dirname(d, davService), d.mtime, d.status, permissions(d, davService),
    owner(d, davService), a>>

\* C1: a move(destination) that validation rejects throws and leaves every
\* observable field of the Node (source, root, path, dirname, mtime, status,
\* permissions, owner, attributes) as it was before the call.
C1_MoveRejectedIsAtomic ==
  [][(lastCall' = <<"move">> /\ lastError' # NoError)
       => /\ Observable(data', attributes', knownDavService')
               = Observable(data, attributes, knownDavService)
          /\ data' = data]_vars

\* a move was rejected because the root is not part of the destination
C1_Witness ==
  /\ lastCall = <<"move">>
  /\ lastError = "Root must be part of the source"
  /\ lastArg # data.source

\* C2: rename(basename) with a basename that contains '/' throws 'Invalid
\* basename', leaves source and mtime unchanged, and does not reach move.
C2_RenameWithSlashThrows ==
  [][(LastWas("rename")' /\ includes(lastArg'.str, <<"/">>))
       => /\ lastError' = "Invalid basename"
          /\ lastCall' = <<"rename">>
          /\ source(data') = source(data)
          /\ data'.source = data.source
          /\ data'.mtime = data.mtime]_vars

\* rename was called with a basename that contains '/', on a Node with an mtime
C2_Witness ==
  /\ LastWas("rename")
  /\ includes(lastArg.str, <<"/">>)
  /\ lastError = "Invalid basename"
  /\ data.mtime # Undefined

\* C3: in every reachable state of a Node the source accessor returns a
\* string that does not end with '/'.
C3_SourceHasNoEndingSlash ==
  constructed => ~endsWithSlash(source(data))

\* C8: every set or delete of a key of node.attributes refreshes mtime to the
\* current time when the Node has an mtime, leaves mtime absent when it has
\* none, and applies the attribute write.
C8_AttributeWriteRefreshesMtime ==
  [][(LastWas("set")' \/ LastWas("deleteProperty")')
       => /\ data.mtime # Undefined => data'.mtime = DateOf(clock)
          /\ data.mtime = Undefined => data'.mtime = Undefined
          /\ attributes'[lastCall'[2]] = lastArg']_vars

\* an attribute was set on a Node with an mtime, at a time later than that of
\* construction
C8_Witness ==
  /\ LastWas("set")
  /\ attributes[lastCall[2]] = lastArg
  /\ data.mtime.type = "date"
  /\ data.mtime.num = clock - 1
  /\ data.mtime.num > 1

\* an attribute was deleted on a Node without mtime
C8_WitnessAbsent ==
  /\ LastWas("deleteProperty")
  /\ data.mtime = Undefined

FrameFields ==
  {"id", "mime", "size", "crtime", "permissions", "owner", "root", "status",
   "attributes"}

\* C9: a successful move(destination) changes only the stored source, which
\* becomes destination, and mtime, refreshed if and only if the Node had one:
\* id, mime, size, crtime, the stored permissions, owner, root and status
\* and the attributes are unchanged.
C9_MoveFrame ==
  [][(lastCall' = <<"move">> /\ lastError' = NoError)
       => /\ data'.source = lastArg'
          /\ data.mtime # Undefined => data'.mtime = DateOf(clock)
          /\ data.mtime = Undefined => data'.mtime = Undefined
          /\ \A f \in FrameFields : data'[f] = data[f]
          /\ attributes' = attributes]_vars

\* a move succeeded on a Node with an explicit root, a status and an attribute
C9_Witness ==
  /\ lastCall = <<"move">>
  /\ lastError = NoError
  /\ data.source = lastArg
  /\ data.root # Undefined
  /\ data.mtime = DateOf(clock - 1)

\* C10: after a successful rename(b), with b free of '/', the basename of the
\* Node is b and the parent directory of its source is the one before the call.
C10_RenameSetsBasename ==
  [][(LastWas("rename")' /\ lastError' = NoError)
       => /\ basename(data') = lastArg'.str
          /\ posix_dirname(source(data')) = posix_dirname(source(data))]_vars

\* C11: fileid is the supplied id whenever an id was supplied, and
\* attributes.fileid (undefined when there is none) only when no id was
\* supplied.
C11_FileidPrefersId ==
  constructed =>
    fileid(data, attributes)
      = IF data.id # Undefined THEN data.id ELSE attributes["fileid"]

\* C12: the permissions accessor returns READ when the owner accessor is null
\* and the source is not a DAV resource, otherwise the supplied permissions
\* or NONE when none was supplied; what it returns is within NONE..ALL.
C12_PermissionsAccessor ==
  constructed =>
    LET p == permissions(data, knownDavService)
        dav == reTest(knownDavService, source(data))
        forced == owner(data, knownDavService) = Null /\ ~dav
    IN /\ p.type = "number"
       /\ p.num \in PermissionNONE..PermissionALL
       /\ forced => p = Num(PermissionREAD)
       /\ ~forced => p = IF data.permissions = Undefined
                           THEN Num(PermissionNONE)
                           ELSE data.permissions

\* a Node supplied with permissions ALL was moved to a source that is not a
\* DAV resource, and its permissions are READ
C12_Witness ==
  /\ lastCall = <<"move">>
  /\ lastError = NoError
  /\ ~reTest(knownDavService, source(data))
  /\ data.permissions = Num(PermissionALL)
  /\ permissions(data, knownDavService) = Num(PermissionREAD)

\* C13: in every reachable state of a Node the stored status is undefined or
\* one of NEW, FAILED, LOADING, LOCKED.
C13_StatusIsValid ==
  constructed =>
    \/ data.status = Undefined
    \/ data.status.type = "string" /\ data.status.str \in NodeStatus

\* x is a suffix of s
isSuffix(x, s) ==
  Len(x) <= Len(s) /\ SubSeq(s, Len(s) - Len(x) + 1, Len(s)) = x

\* C14: for a Node with an explicit root, root followed by path is a suffix
\* of the path component of the source URL (path being '/' when the source
\* ends at the root), and dirname is the parent directory of path.
C14_RootPathIsSuffix ==
  (constructed /\ data.root # Undefined) =>
    LET r == root(data, knownDavService)
        p == path(data, knownDavService)
        pathname == urlPathname(source(data))
    IN /\ r.type = "string"
       /\ \/ isSuffix(r.str \o p, pathname)
          \/ p = <<"/">> /\ isSuffix(r.str, pathname)
       /\ dirname(data, knownDavService) = posix_dirname(p)

\* the positions of s where the pattern re matches
occurrences(re, s) == {i \in 1..Len(s) : reMatchLenAt(re, s, i) > 0}

\* what follows the last occurrence of re in s; s has one
afterLastOccurrence(re, s) ==
  LET i == CHOOSE x \in occurrences(re, s) :
             \A y \in occurrences(re, s) : y <= x
  IN SubSeq(s, i + reMatchLenAt(re, s, i), Len(s))

\* s without its ending slash; the root '/' is all slash and stays
withoutEndingSlash(s) ==
  IF Len(s) > 1 /\ s[Len(s)] = "/" THEN SubSeq(s, 1, Len(s) - 1) ELSE s

\* C15: the root accessor returns the supplied root without its ending slash
\* when a root was supplied; otherwise, when the source matches the DAV
\* service pattern, the part of the parent directory of source that follows
\* the service token, or null when there is no such part; otherwise null.
C15_RootAccessor ==
  constructed =>
    LET r == root(data, knownDavService)
        parent == posix_dirname(source(data))
    IN IF data.root # Undefined
         THEN r = Str(withoutEndingSlash(data.root.str))
         ELSE IF occurrences(knownDavService, source(data)) # {}
           THEN IF occurrences(knownDavService, parent) = {}
                  THEN r = Null
                  ELSE LET part == afterLastOccurrence(knownDavService, parent)
                       IN r = IF part = EmptyStr THEN Null ELSE Str(part)
           ELSE r = Null

\* C16: for a DAV Node without an explicit root whose inferred root is not
\* null, dirname is '/' and path is '/' followed by the basename.
C16_InferredRootPath ==
  (/\ constructed
   /\ data.root = Undefined
   /\ get_isDavRessource(data, knownDavService)
   /\ root(data, knownDavService) # Null) =>
    /\ dirname(data, knownDavService) = <<"/">>
    /\ path(data, knownDavService) = <<"/">> \o basename(data)

\* C20: when no root was supplied and the service token occurs more than once
\* in the source, the inferred root is the part of the parent directory of
\* source that follows the last occurrence of the token in that directory
\* (null when that part is empty).
C20_LastTokenDecides ==
  (/\ constructed
   /\ data.root = Undefined
   /\ Cardinality(occurrences(knownDavService, source(data))) > 1) =>
    LET parent == posix_dirname(source(data))
        part == afterLastOccurrence(knownDavService, parent)
    IN /\ occurrences(knownDavService, parent) # {}
       /\ root(data, knownDavService)
            = IF part = EmptyStr THEN Null ELSE Str(part)

\* a Node whose source holds the token twice in its parent directory, with
\* different text after each
C20_Witness ==
  /\ constructed
  /\ data.root = Undefined
  /\ Cardinality(occurrences(knownDavService,
                             posix_dirname(source(data)))) > 1
  /\ root(data, knownDavService) = Str(<<"/", "e">>)

\* C19: no write the caller makes, after construction, to the data bag or to
\* the attributes object it passed changes what the accessors of the Node
\* return, the source, the mtime or the attributes.
C19_NodeOwnsData ==
  [][LastWas("caller")'
       => /\ data'.source = data.source
          /\ data'.mtime = data.mtime
          /\ attributes' = attributes
          /\ permissions(data', knownDavService')
               = permissions(data, knownDavService)]_vars

\* the derived accessors of a Node
Derived(d, a, davService) ==
  <<source(d), basename(d), dirname(d, davService), root(d, davService),
    path(d, davService), get_isDavRessource(d, davService),
    owner(d, davService), permissions(d, davService), fileid(d, a)>>

\* C22: after a successful move(destination) every derived accessor of the
\* Node equals that of a fresh Node of the same type constructed from the
\* same data with source destination and the same DAV service pattern (so a
\* sequence of successful moves leaves the Node as a fresh Node at its last
\* destination, and moving back restores the accessors).
C22_MovedEqualsFresh ==
  [][(lastCall' = <<"move">> /\ lastError' = NoError)
       => \A fresh \in {newNode([data EXCEPT !.source = lastArg',
                                               !.attributes = Obj(attributes)],
                                  nodeType, knownDavService)} :
            /\ fresh.err = NoError
            /\ Derived(data', attributes', knownDavService')
                 = Derived(fresh.data, fresh.attributes,
                           fresh.knownDavService)]_vars

\* the second of two calls was a successful move that took a Node with an
\* owner and supplied permissions to a source that is not a DAV resource
C22_Witness ==
  /\ lastCall = <<"move">>
  /\ lastError = NoError
  /\ clock = 3
  /\ data.owner.type = "string"
  /\ data.permissions.type = "number"
  /\ owner(data, knownDavService) = Null
  /\ ~get_isDavRessource(data, knownDavService)

(***************************************************************************)
(* Properties of the file action registry                                  *)
(***************************************************************************)
\* the positions of history that hold the first action with their id
FirstRegistrations ==
  {i \in 1..Len(history) :
     \A j \in 1..(i - 1) : history[j].id # history[i].id}

\* the k-th smallest element of a set of numbers
kth(S, k) == CHOOSE i \in S : Cardinality({j \in S : j < i}) = k - 1

C4_RegistryState ==
  LET items == nc_fileactions.items
  IN /\ \A i, j \in 1..Len(items) : i # j => items[i].id # items[j].id
     /\ Len(items) = Cardinality(FirstRegistrations)
     /\ \A k \in 1..Len(items) : items[k] = history[kth(FirstRegistrations, k)]
     /\ lastCall = << >> => nc_fileactions = NoArray
     /\ lastCall # << >> => nc_fileactions.ref = 1
     /\ returned # 0 => returned = nc_fileactions.ref
     /\ lastError = NoError

\* C4: after any sequence of registerFileAction calls the collection holds no
\* two actions with the same id; it holds, for each id, the first action
\* registered with it, in order of first registration; a registration with an
\* id already present does not throw and changes nothing; the collection is
\* created empty on the first access by either function, and getFileActions
\* returns that same collection.
C4_FirstRegistrationWins ==
  /\ []C4_RegistryState
  /\ [][(LastWas("registerFileAction")'
           /\ findById(nc_fileactions.items, history'[Len(history')].id))
          => /\ nc_fileactions'.items = nc_fileactions.items
             /\ lastError' = NoError
             /\ lastLog' = "error"]_vars

\* an id was registered a second time with another action object, after
\* getFileActions returned the collection
C4_Witness ==
  /\ LastWas("registerFileAction")
  /\ lastLog = "error"
  /\ returned = 1
  /\ Len(nc_fileactions.items) >= 2
  /\ \E i \in 1..Len(history) :
       /\ history[i].id = history[Len(history)].id
       /\ history[i].obj # history[Len(history)].obj

(***************************************************************************)
(* Properties of the new file menu                                         *)
(***************************************************************************)
\* the entry passes every check but the one for a registered id
WellFormedEntry(entry) == validateEntry(<< >>, entry) = NoError

\* C5: registerEntry throws 'Duplicate entry' when an entry with the same id
\* is registered; every registerEntry call that throws leaves the collection
\* as it was; the ids of the registered entries are pairwise distinct.
C5_RegisterEntryIsAtomic ==
  /\ [](\A i, j \in 1..Len(entries) : i # j => entries[i].id # entries[j].id)
  /\ [][LastWas("registerEntry")'
          => /\ lastError' # NoError => entries' = entries
             /\ getEntryIndex(entries, lastEntry'.id) # 0 => lastError' # NoError
             /\ (getEntryIndex(entries, lastEntry'.id) # 0
                   /\ WellFormedEntry(lastEntry'))
                  => lastError' = "Duplicate entry"]_vars

\* an entry was refused as a duplicate of a registered entry that is another
\* object with the same id
C5_Witness ==
  /\ LastWas("registerEntry")
  /\ lastError = "Duplicate entry"
  /\ \E i \in 1..Len(entries) :
       entries[i].id = lastEntry.id /\ entries[i] # lastEntry

\* the positions of the entries that have no `if` or whose `if` is true of ctx
Shown(list, ctx) ==
  {i \in 1..Len(list) : list[i].if = Undefined \/ evalIf(list[i], ctx)}

\* C6: getEntries() without context returns all registered entries in
\* registration order; getEntries(context) returns, in the same order,
\* exactly the entries without `if` or whose `if` is true of the context;
\* getEntries does not change the registered entries.
C6_GetEntriesFilters ==
  [][LastWas("getEntries")'
       => /\ entries' = entries
          /\ lastContext' = NoData => result' = entries
          /\ lastContext' # NoData =>
               /\ Len(result') = Cardinality(Shown(entries, lastContext'))
               /\ \A k \in 1..Len(result') :
                    result'[k] = entries[kth(Shown(entries, lastContext'), k)]]_vars

\* getEntries(context) left out some entries and returned others
C6_Witness ==
  /\ LastWas("getEntries")
  /\ lastContext # NoData
  /\ Len(result) >= 1
  /\ Len(result) < Len(entries)

\* the positions of the entries that the argument of unregisterEntry designates
Designated(list, entry, byId) ==
  {i \in 1..Len(list) : IF byId THEN list[i].id = entry.id ELSE list[i] = entry}

\* C7: unregisterEntry(x), x an entry or an id, removes the registered entry
\* it designates and keeps the others in their order; when no registered
\* entry matches it does not throw, logs a warning and leaves the collection
\* unchanged; after a removal the same id can be registered again.
C7_UnregisterEntryRemovesOne ==
  /\ [][LastWas("unregisterEntry")'
          => LET d == Designated(entries, lastEntry', lastCall'[2] = "id")
             IN /\ lastError' = NoError
                /\ d = {} => (entries' = entries /\ lastLog' = "warn")
                /\ d # {} => (\E i \in d : entries' = removeAt(entries, i))
                /\ Cardinality(d) <= 1]_vars
  /\ [][(LastWas("registerEntry")' /\ WellFormedEntry(lastEntry')
           /\ getEntryIndex(entries, lastEntry'.id) = 0)
          => /\ lastError' = NoError
             /\ entries' = Append(entries, lastEntry')]_vars

\* an entry was removed from between two others
C7_Witness ==
  /\ LastWas("unregisterEntry")
  /\ lastLog = NoLog
  /\ Len(entries) = 2
  /\ lastEntry.id = Str(w_b)
  /\ entries[1].id = Str(w_a)
  /\ entries[2].id = Str(w_c)

(***************************************************************************)
(* Properties of the FileAction constructor                                *)
(***************************************************************************)
\* the keys in the order of their rules, and the message of each rule
RuleOrder ==
  <<"id", "displayName", "title", "iconSvgInline", "exec", "enabled",
    "execBatch", "order", "default", "inline", "renderInline">>

RuleMessage(key) ==
  CASE key = "id" -> "Invalid id"
    [] key = "order" -> "Invalid order"
    [] key = "default" -> "Invalid default"
    [] key = "displayName" -> "Invalid displayName function"
    [] key = "title" -> "Invalid title function"
    [] key = "iconSvgInline" -> "Invalid iconSvgInline function"
    [] key = "exec" -> "Invalid exec function"
    [] key = "enabled" -> "Invalid enabled function"
    [] key = "execBatch" -> "Invalid execBatch function"
    [] key = "inline" -> "Invalid inline function"
    [] key = "renderInline" -> "Invalid renderInline function"

\* the rule of a key is violated: id is a non-empty string; displayName,
\* iconSvgInline and exec are functions; title, enabled, execBatch, inline
\* and renderInline are functions when the key is there; order is a number
\* when the key is there; default, when set (truthy), is a DefaultType
RuleViolated(action, key) ==
  LET v == action[key]
  IN CASE key = "id" -> ~(v.type = "string" /\ Len(v.str) > 0)
       [] key \in {"displayName", "iconSvgInline", "exec"} ->
            v.type # "function"
       [] key = "order" -> v # Absent /\ v.type \notin {"number", "fraction"}
       [] key = "default" ->
            /\ v \notin {Absent, Undefined, Str(EmptyStr)}
            /\ v \notin {Str(w_default), Str(w_hidden)}
       [] OTHER -> v # Absent /\ v.type # "function"

\* the positions of RuleOrder whose rule the action violates
ViolatedRules(action) ==
  {i \in 1..Len(RuleOrder) : RuleViolated(action, RuleOrder[i])}

\* C21: new FileAction(action) succeeds if and only if the action violates no
\* rule; otherwise it throws the message of the first violated rule in the
\* order id, displayName, title, iconSvgInline, exec, enabled, execBatch,
\* order, default, inline, renderInline, makes no FileAction and leaves the
\* registry as it was.
C21_FirstViolatedRuleIsReported ==
  [][LastWas("FileAction")'
       => LET bad == ViolatedRules(lastEntry')
          IN /\ (lastError' = NoError) <=> (bad = {})
             /\ bad = {} => fileAction' = lastEntry'
             /\ bad # {} =>
                  /\ lastError' = RuleMessage(RuleOrder[
                        CHOOSE i \in bad : \A j \in bad : i <= j])
                  /\ fileAction' = NoAction
             /\ nc_fileactions' = nc_fileactions]_vars

\* a construction threw for an action that violates the rules of title and
\* of exec, while the registry holds an action
C21_Witness ==
  /\ LastWas("FileAction")
  /\ lastError = "Invalid title function"
  /\ Cardinality(ViolatedRules(lastEntry)) > 1
  /\ fileAction = NoAction
  /\ Len(nc_fileactions.items) > 0

(***************************************************************************)
(* Properties of the process-wide NewFileMenu                              *)
(***************************************************************************)
\* C18: getNewFileMenu() creates and stores a NewFileMenu only when none is
\* stored, returns the stored one, and never replaces a stored one or
\* changes its entries.
C18_MenuIsCreatedOnce ==
  [][LastWas("getNewFileMenu")'
       => /\ nc_newfilemenu' # 0
          /\ menuReturned' = nc_newfilemenu'
          /\ nc_newfilemenu # 0
               => nc_newfilemenu' = nc_newfilemenu /\ instances' = instances
          /\ nc_newfilemenu = 0
               => Len(instances') = Len(instances) + 1]_vars

\* a later getNewFileMenu() returned the stored menu, which holds an entry
\* registered through an earlier result
C18_Witness ==
  /\ LastWas("getNewFileMenu")
  /\ lastLog = NoLog
  /\ menuReturned = nc_newfilemenu
  /\ menuReturned # 0
  /\ Len(instances[menuReturned]) > 0

====
